---- MODULE Spec2Model ----
(***************************************************************************)
(* The scrapers of Tourism&Culture_Assistance/scrape as state machines:    *)
(*   scrape_srilanka.py crawl()       (script = "srilanka")                *)
(*   thecommonwanderer.py crawl()     (script = "wanderer")                *)
(*   scrape_ft_travel.py main()       (script = "ft_travel")               *)
(*   ella_travel_guide.py get_page()  (script = "ella")                    *)
(*   ella_travel_guide.py run_full_scrape()  (script = "ella", section>0)  *)
(* and chunk_text of the two chunking.py  (script = "chunking").           *)
(* Spec is one run of a crawl, SpecRuns is scrape_srilanka.py run several  *)
(* times in a row, SpecFT, SpecGetPage, SpecElla and SpecChunk are the     *)
(* other scripts.                                                          *)
(* A URL is a host (a sequence of string tokens whose concatenation is the *)
(* netloc) and a path (a sequence of segments, each a sequence of tokens). *)
(* Time is counted in units of REQUEST_DELAY; an HTTP request itself takes *)
(* negligible time.                                                        *)
(***************************************************************************)
EXTENDS Integers, Sequences, FiniteSets, TLC

VARIABLES
    script,         \* which script runs
    MAX_PAGES,      \* the page budget (module constant of the script)
    disallow,       \* URLs the parsed robots.txt denies to USER_AGENT
    crawl_delay,    \* rp.crawl_delay(USER_AGENT); 0 stands for None
    pc,             \* position of crawl()
    visited, q, pages_crawled,
    url,            \* the URL popped in the current iteration
    images,         \* images of the current page, in list order
    links,          \* links of the current page (srilanka: a set)
    downloaded,     \* downloaded_images of the current record
    todo,           \* images of the current page not yet handled
    outBuf,         \* text written to the output file object, not yet flushed
    outFile,        \* content of the output file on disk
    files,          \* the image store: file name -> URL its content came from
    pops,           \* history: URL -> number of times q.popleft() returned it
    robotsChecks,   \* history: URL -> number of allowed(url) calls for a page
    pageGets,       \* history: URL -> number of first GETs of the page
    linkGets,       \* history: URL -> number of second GETs (wanderer line 88)
    imgGets,        \* history: image URL -> number of GETs
    elapsed,        \* history: time slept since the last request to the site
    impolite,       \* history: some request came sooner than the required delay
    written,        \* history: the records handed to write(), in order
    stoppedAt,      \* history: the position at which the process was stopped
    web,            \* history: URL -> what the server answered when the page
                    \* was fetched (the page graph as far as it is known)
    depth,          \* history: URL -> its depth when it was first discovered,
                    \* -1 before that
    fetched,        \* history: the pages requested in this run, in order
    runs,           \* the number of the run of the script, from 1
    prev,           \* history: `fetched` of the run before this one
    \* scrape_ft_travel.py
    listing,        \* the articles of the listing not yet processed
    idx,            \* enumerate index inside download_images
    rows,           \* the rows collected in memory
    csv,            \* the CSV file on disk: <<>> while it does not exist,
                    \* <<rows>> once df.to_csv has written it
    robotsReads,    \* history: number of rp.read() calls
    robotsFailed,   \* history: some rp.read() raised
    \* ella_travel_guide.py get_page
    max_retries, attempt,
    result,         \* what get_page returned: "soup" or "None"
    responses,      \* history: the outcome of each session.get, in order
    \* ella_travel_guide.py run_full_scrape
    section,        \* the section being scraped, from 1; 0 outside a full scrape
    all_data,       \* self.all_data, the records collected
    items,          \* elements of the section's page not yet looked at
    soups,          \* history: what get_page returned for each section so far
    complete_csv,   \* ella_tripadvisor_complete_data.csv: <<>> or <<rows>>
    partial_csv,    \* ella_tripadvisor_partial_data.csv: <<>> or <<rows>>
    \* chunking.py chunk_text
    doc_text,       \* the input text, a sequence of pieces of words
    max_tokens, overlap_tokens,
    chunks          \* what chunk_text returned, "unset" before it is called

crawlVars == <<script, MAX_PAGES, disallow, crawl_delay, pc, visited, q,
               pages_crawled, url, images, links, downloaded, todo,
               outBuf, outFile, files>>
histVars == <<pops, robotsChecks, pageGets, linkGets, imgGets, elapsed, impolite, written>>
ftVars == <<listing, idx, rows, csv, robotsReads, robotsFailed>>
gpVars == <<max_retries, attempt, result, responses>>
trail == <<web, depth, fetched>>
runVars == <<runs, prev>>
ellaVars == <<section, all_data, items, soups, complete_csv, partial_csv>>
chunkVars == <<doc_text, max_tokens, overlap_tokens, chunks>>
vars == <<crawlVars, histVars, ftVars, gpVars, stoppedAt, trail, runVars,
          ellaVars, chunkVars>>

----------------------------------------------------------------------------
(* Bounds of the model *)

\* The budgets MAX_PAGES the model runs with are 0..MaxBudget.
MaxBudget == 3
\* get_page is called with max_retries in 0..MaxRetries (its default is 3).
MaxRetries == 3
\* The largest Crawl-delay a site asks for, in units of REQUEST_DELAY; elapsed
\* time is counted up to it.
MaxDelay == 2
\* The script is run up to MaxRuns times in a row,
MaxRuns == 2
\* with a page budget of up to MaxRunBudget when it is.
MaxRunBudget == 2
MaxItems == 1
MaxSentences == 3
MaxTokens == 3
MaxOverlap == 2

----------------------------------------------------------------------------
(* The web the crawl runs on *)

Url(host, path) == [host |-> host, path |-> path]

\* "www.site.tld" is the netloc of START_URL / BASE_URL.
SiteHost == <<"www.", "site.tld">>
\* "notsite.tld": another registered domain whose name ends with "site.tld".
OtherHost == <<"not", "site.tld">>
\* "example.com": an unrelated site.
ForeignHost == <<"example.com">>

START_URL == Url(SiteHost, <<>>)
PageB == Url(SiteHost, <<<<"b">>>>)
PageC == Url(SiteHost, <<<<"c">>>>)
PageE == Url(OtherHost, <<>>)
PageX == Url(ForeignHost, <<>>)
\* Two images with the same base name in different directories, one other.
Img1 == Url(SiteHost, <<<<"img">>, <<"a", ".jpg">>>>)
Img2 == Url(SiteHost, <<<<"gallery">>, <<"a", ".jpg">>>>)
Img3 == Url(ForeignHost, <<<<"b", ".png">>>>)

PageUrls == {START_URL, PageB, PageC, PageE, PageX}
ImageUrls == {Img1, Img2, Img3}
AllUrls == PageUrls \cup ImageUrls

\* An href or src attribute as found in a document: kind "abs" names the URL
\* `to` with fragment `frag`; kind "self" is a bare "#frag"; the other kinds
\* are "" (empty), "javascript:", "mailto:" and "tel:" values.
Href(kind, to, frag) == [kind |-> kind, to |-> to, frag |-> frag]
Abs(u) == Href("abs", u, "")
Frag(u, f) == Href("abs", u, f)
Self(f) == Href("self", START_URL, f)
Other(kind) == Href(kind, START_URL, "")

\* The documents a server may answer with: the anchors and the images in
\* document order. Any page may serve any of them, at any request.
Doc(hrefs, srcs) == [hrefs |-> hrefs, srcs |-> srcs]
DocHub == Doc(<<Abs(PageB), Abs(PageC), Frag(PageB, "s"), Abs(PageX), Other("mailto")>>,
              <<Abs(Img1), Abs(Img2)>>)
DocBack == Doc(<<Abs(START_URL), Self("top"), Abs(PageE)>>,
               <<Frag(Img1, "x")>>)
DocLeaf == Doc(<<Other("empty"), Other("javascript"), Other("tel")>>, <<>>)
Docs == {DocHub, DocBack, DocLeaf}

\* The robots.txt rule sets the site may publish (as the set of URLs denied).
RobotsPolicies == {{}, {PageC, Img2}}
\* Crawl-delay directives the site may publish; 0 is "none".
CrawlDelays == {0, MaxDelay}

----------------------------------------------------------------------------
(* Pure helpers of the scripts *)

REQUEST_DELAY == 1

None == Url(<<>>, <<>>)

Min(a, b) == IF a < b THEN a ELSE b

\* str.endswith on the netloc, token-wise.
EndsWith(s, suffix) ==
    /\ Len(suffix) <= Len(s)
    /\ SubSeq(s, Len(s) - Len(suffix) + 1, Len(s)) = suffix

\* tldextract.extract(url).registered_domain: the host without its subdomain.
registered_domain(u) ==
    IF u.host # <<>> /\ Head(u.host) = "www." THEN Tail(u.host) ELSE u.host

\* scrape_srilanka.py
same_domain(u) == EndsWith(u.host, registered_domain(START_URL))

\* thecommonwanderer.py
same_site(u) == registered_domain(u) = registered_domain(START_URL)

\* urljoin(base, link.split('#')[0]): the fragment is dropped, an empty
\* reference resolves to the base.
normalize_url(base, link) ==
    IF link.kind = "empty" THEN None
    ELSE IF link.kind \in {"javascript", "mailto", "tel"} THEN None
    ELSE IF link.kind = "self" THEN base
    ELSE link.to

\* thecommonwanderer.py: "tel:" is not filtered; urljoin leaves it as it is,
\* a URL with no host.
normalize_link(base, link) ==
    IF link.kind = "empty" \/ link.kind \in {"javascript", "mailto"} THEN None
    ELSE IF link.kind = "tel" THEN Url(<<"tel:">>, <<>>)
    ELSE IF link.kind = "self" THEN base
    ELSE link.to

\* rp.can_fetch(USER_AGENT, u): a parser whose read() raised has read nothing
\* and answers False to every question.
allowed(u) == ~robotsFailed /\ u \notin disallow

\* rp.crawl_delay(USER_AGENT): None from a parser that has read nothing
rp_crawl_delay == IF robotsFailed THEN 0 ELSE crawl_delay

Range(s) == {s[i] : i \in DOMAIN s}

find_all_links(doc, base) ==
    {u \in {normalize_url(base, h) : h \in Range(doc.hrefs)} : u # None /\ same_domain(u)}

find_all_images(doc, base) ==
    {u \in {normalize_url(base, h) : h \in Range(doc.srcs)} : u # None}

\* The orders in which a Python set may be iterated.
Perms(S) ==
    {s \in [1..Cardinality(S) -> S] : \A i, j \in DOMAIN s : i # j => s[i] # s[j]}

\* os.path.basename(parsed.path)
Basename(path) == IF path = <<>> THEN <<>> ELSE path[Len(path)]

Exts == {".jpg", ".png"}
\* os.path.splitext
SplitExt(f) ==
    IF Len(f) > 1 /\ f[Len(f)] \in Exts
    THEN <<SubSeq(f, 1, Len(f) - 1), <<f[Len(f)]>>>>
    ELSE <<f, <<>>>>

\* "img_" + str(abs(hash(url)))[:8] for a URL whose path has no base name
HashName(u) == <<"img_", "hash">> \o u.host

\* Mutant of FreePath: no collision loop, the first name is used as it is.
FirstPath(store, out_path, base, ext, i) == out_path

RECURSIVE FreePath(_, _, _, _, _)
\* while os.path.exists(out_path): out_path = f"{base}_{i}{ext}"; i += 1
FreePath(store, out_path, base, ext, i) ==
    IF out_path \in DOMAIN store
    THEN FreePath(store, base \o <<"_", ToString(i)>> \o ext, base, ext, i + 1)
    ELSE out_path

\* The path download_image writes to for url, given the files that exist.
OutPath(store, u) ==
    LET fname == IF Basename(u.path) # <<>> THEN Basename(u.path) ELSE HashName(u)
        se == SplitExt(fname)
    IN FreePath(store, fname, se[1], se[2], 1)

\* json.dumps(record) + "\n" as the text handed to write(): the object, then
\* the line end.
JsonLine(r) == <<[t |-> "json", r |-> <<r>>], [t |-> "nl", r |-> <<>>]>>

\* Reading the output back: one JSON object per line; a text that does not
\* split into complete lines of one object each does not parse.
Parses(text) ==
    /\ Len(text) % 2 = 0
    /\ \A i \in 1..Len(text) :
          text[i].t = (IF i % 2 = 1 THEN "json" ELSE "nl")
ParsedRecords(text) == [i \in 1..(Len(text) \div 2) |-> text[2 * i - 1].r[1]]

OnSite(u) == registered_domain(u) = registered_domain(START_URL)
RequiredDelay == IF rp_crawl_delay # 0 THEN rp_crawl_delay ELSE REQUEST_DELAY

\* time.sleep(d) after the elapsed time e
Slept(e, d) == Min(e + d, MaxDelay)

Inc(f, x) == [f EXCEPT ![x] = @ + 1]

----------------------------------------------------------------------------
(* State after the module level code has run and crawl() has been entered *)

Zero == [u \in AllUrls |-> 0]

\* The depths before the first page is fetched: 0 for a seed.
Seeded(seeds) == [u \in AllUrls |-> IF u \in Range(seeds) THEN 0 ELSE -1]

\* The variables of a script that is not the one running.
FT_Idle ==
    /\ listing = <<>>
    /\ idx = 0
    /\ rows = <<>>
    /\ csv = <<>>
    /\ robotsReads = 0
    /\ robotsFailed = FALSE

GP_Idle ==
    /\ max_retries = 0
    /\ attempt = 0
    /\ result = "none"
    /\ responses = <<>>

Ella_Idle ==
    /\ section = 0
    /\ all_data = <<>>
    /\ items = 0
    /\ soups = <<>>
    /\ complete_csv = <<>>
    /\ partial_csv = <<>>

Chunk_Idle ==
    /\ doc_text = <<>>
    /\ max_tokens = 0
    /\ overlap_tokens = 0
    /\ chunks = "unset"

Crawl_Idle ==
    /\ MAX_PAGES = 0
    /\ crawl_delay = 0
    /\ visited = {}
    /\ q = <<>>
    /\ pages_crawled = 0
    /\ links = {}
    /\ outBuf = <<>>
    /\ outFile = <<>>
    /\ pops = Zero
    /\ robotsChecks = Zero
    /\ linkGets = Zero
    /\ elapsed = MaxDelay
    /\ impolite = FALSE
    /\ written = <<>>
    /\ stoppedAt = "running"
    /\ web = <<>>
    /\ depth = [u \in AllUrls |-> -1]
    /\ fetched = <<>>
    /\ runs = 1
    /\ prev = <<>>

InitCommon ==
    /\ MAX_PAGES \in 0..MaxBudget
    /\ crawl_delay \in CrawlDelays
    /\ pc = "robots"
    /\ visited = {}
    /\ pages_crawled = 0
    /\ url = None
    /\ images = <<>>
    /\ links = {}
    /\ downloaded = <<>>
    /\ todo = <<>>
    /\ outBuf = <<>>
    /\ outFile = <<>>
    /\ files = <<>>
    /\ pops = Zero
    /\ robotsChecks = Zero
    /\ pageGets = Zero
    /\ linkGets = Zero
    /\ imgGets = Zero
    /\ elapsed = MaxDelay
    /\ impolite = FALSE
    /\ written = <<>>
    /\ stoppedAt = "running"
    /\ web = <<>>
    /\ fetched = <<>>
    /\ runs = 1
    /\ prev = <<>>
    /\ FT_Idle
    /\ GP_Idle
    /\ Ella_Idle
    /\ Chunk_Idle

\* scrape_srilanka.py: q = deque([start_url]); open(OUTPUT_JSONL, "w")
InitSrilanka ==
    /\ script = "srilanka"
    /\ disallow \in RobotsPolicies
    /\ q = <<START_URL>>
    /\ depth = Seeded(<<START_URL>>)
    /\ InitCommon

\* thecommonwanderer.py: q = deque(START_PAGES), two pages of the site
START_PAGES == <<PageB, START_URL>>
\* The rule sets of its site: robots.txt may also deny the first start page.
CW_RobotsPolicies == RobotsPolicies \cup {{PageB}}
InitWanderer ==
    /\ script = "wanderer"
    /\ disallow \in CW_RobotsPolicies
    /\ q = START_PAGES
    /\ depth = Seeded(START_PAGES)
    /\ InitCommon

\* An HTTP request to u at the present moment.
Request(u) ==
    IF OnSite(u)
    THEN /\ impolite' = (impolite \/ elapsed < RequiredDelay)
         /\ elapsed' = 0
    ELSE UNCHANGED <<impolite, elapsed>>

\* An HTTP request to u followed by time.sleep(d).
RequestThenSleep(u, d) ==
    IF OnSite(u)
    THEN /\ impolite' = (impolite \/ elapsed < RequiredDelay)
         /\ elapsed' = Slept(0, d)
    ELSE /\ impolite' = impolite
         /\ elapsed' = Slept(elapsed, d)

\* rp.read(): robots.txt is requested and parsed (readable), or the
\* request raises.
RobotsRead(readable) ==
    /\ robotsReads' = robotsReads + 1
    /\ robotsFailed' = (robotsFailed \/ ~readable)

\* open(OUTPUT_JSONL, "w"): the file is created, or cut to length 0.
OpenW ==
    /\ outFile' = <<>>
    /\ outBuf' = <<>>

\* What a server answers to the request for a page: it fails, or it sends a
\* document.
Answer(ok, doc) == [ok |-> ok, doc |-> doc]

\* The site is the same in every run: a page that was fetched before answers
\* as it did then.
Serves(u, a) == u \in DOMAIN web => web[u] = a

\* the request for the page u, answered with a
PageGet(u, a) ==
    /\ Serves(u, a)
    /\ web' = (u :> a) @@ web
    /\ fetched' = Append(fetched, u)
    /\ pageGets' = Inc(pageGets, u)

\* The links appended to the queue while `url` is processed: the ones seen
\* for the first time are one level below it.
Discover(new) ==
    depth' = [u \in AllUrls |->
                IF u \in new /\ depth[u] = -1 THEN depth[url] + 1 ELSE depth[u]]

\* what the steps of a running script leave as it is (`trail` but for the
\* requests for pages and the appends to the queue)
setup == <<script, MAX_PAGES, disallow, crawl_delay, runVars, ellaVars, chunkVars>>
conf == <<setup, stoppedAt, trail>>
page == <<url, images, links, downloaded, todo>>
sink == <<outBuf, outFile, written>>

----------------------------------------------------------------------------
(* scrape_srilanka.py crawl() *)

\* Mutant of SL_LoopCond: the budget test off by one.
SL_LoopCondOffByOne == q # <<>> /\ pages_crawled <= MAX_PAGES

\* while q and pages_crawled < MAX_PAGES
SL_LoopCond == q # <<>> /\ pages_crawled < MAX_PAGES

SL_Running == script = "srilanka" /\ pc = "loop" /\ SL_LoopCond

\* Module level: rp.read() inside try/except; a failure is printed as a
\* warning and the script goes on to crawl(START_URL), which opens the
\* output file.
SL_RobotsRead ==
    /\ script = "srilanka" /\ pc = "robots"
    /\ \E readable \in BOOLEAN : RobotsRead(readable)
    /\ OpenW
    /\ pc' = "loop"
    /\ UNCHANGED <<gpVars, conf, visited, q, pages_crawled, page, files, histVars,
                   listing, idx, rows, csv>>

\* The while condition is false: pbar.close(), the file is closed, the count
\* is printed.
SL_Exit ==
    /\ script = "srilanka" /\ pc = "loop"
    /\ ~SL_LoopCond
    /\ pc' = "done"
    /\ UNCHANGED <<ftVars, gpVars, conf, visited, q, pages_crawled, page, sink, files, histVars>>

\* url = q.popleft(); visited or off-site: continue
SL_Skip ==
    /\ SL_Running
    /\ Head(q) \in visited \/ ~same_domain(Head(q))
    /\ q' = Tail(q)
    /\ url' = Head(q)
    /\ pops' = Inc(pops, Head(q))
    /\ UNCHANGED <<ftVars, gpVars, conf, pc, visited, pages_crawled, images, links,
                   downloaded, todo, sink, files,
                   robotsChecks, pageGets, linkGets, imgGets, elapsed, impolite>>

\* not allowed(url): visited.add(url); continue
SL_RobotsSkip ==
    /\ SL_Running
    /\ Head(q) \notin visited /\ same_domain(Head(q))
    /\ ~allowed(Head(q))
    /\ q' = Tail(q)
    /\ url' = Head(q)
    /\ pops' = Inc(pops, Head(q))
    /\ visited' = visited \cup {Head(q)}
    /\ robotsChecks' = Inc(robotsChecks, Head(q))
    /\ UNCHANGED <<ftVars, gpVars, conf, pc, pages_crawled, images, links, downloaded, todo, sink, files,
                   pageGets, linkGets, imgGets, elapsed, impolite>>

\* the URL passes the three checks and goes on to session.get
SL_Take ==
    /\ SL_Running
    /\ Head(q) \notin visited /\ same_domain(Head(q))
    /\ allowed(Head(q))
    /\ q' = Tail(q)
    /\ url' = Head(q)
    /\ pops' = Inc(pops, Head(q))
    /\ pc' = "fetch"
    /\ robotsChecks' = Inc(robotsChecks, Head(q))
    /\ UNCHANGED <<ftVars, gpVars, conf, visited, pages_crawled, images, links, downloaded, todo, sink,
                   files, pageGets, linkGets, imgGets, elapsed, impolite>>

\* session.get / raise_for_status raises: the except branch
SL_FetchFail ==
    /\ script = "srilanka" /\ pc = "fetch"
    /\ PageGet(url, Answer(FALSE, DocLeaf))
    /\ RequestThenSleep(url, REQUEST_DELAY)
    /\ visited' = visited \cup {url}
    /\ pages_crawled' = pages_crawled + 1
    /\ pc' = "loop"
    /\ UNCHANGED <<ftVars, gpVars, setup, stoppedAt, depth, q, page, sink, files,
                   pops, robotsChecks, linkGets, imgGets>>

\* the page is fetched and parsed: images = list(find_all_images(...)),
\* links = find_all_links(...)
SL_FetchOk ==
    /\ script = "srilanka" /\ pc = "fetch"
    /\ \E doc \in Docs :
         /\ PageGet(url, Answer(TRUE, doc))
         /\ images' \in Perms(find_all_images(doc, url))
         /\ links' = find_all_links(doc, url)
    /\ Request(url)
    /\ downloaded' = <<>>
    /\ todo' = images'
    /\ pc' = IF images' # <<>> THEN "images" ELSE "write"
    /\ UNCHANGED <<ftVars, gpVars, setup, stoppedAt, depth, visited, q, pages_crawled, url,
                   sink, files, pops, robotsChecks, linkGets, imgGets>>

AfterImage == IF Tail(todo) # <<>> THEN "images" ELSE "write"

\* for img_url in images: robots denies the image
SL_ImageDenied ==
    /\ script = "srilanka" /\ pc = "images"
    /\ ~allowed(Head(todo))
    /\ todo' = Tail(todo)
    /\ pc' = AfterImage
    /\ UNCHANGED <<ftVars, gpVars, conf, visited, q, pages_crawled, url, images, links, downloaded,
                   sink, files, histVars>>

\* Mutant of SL_ImageFail: the failure ends the loop over the images.
SL_ImageFailBreaks ==
    /\ script = "srilanka" /\ pc = "images"
    /\ allowed(Head(todo))
    /\ imgGets' = Inc(imgGets, Head(todo))
    /\ Request(Head(todo))
    /\ todo' = <<>>
    /\ pc' = "write"
    /\ UNCHANGED <<ftVars, gpVars, conf, visited, q, pages_crawled, url, images, links, downloaded,
                   sink, files, pops, robotsChecks, pageGets, linkGets>>

\* download_image(img_url) fails and returns None
SL_ImageFail ==
    /\ script = "srilanka" /\ pc = "images"
    /\ allowed(Head(todo))
    /\ imgGets' = Inc(imgGets, Head(todo))
    /\ Request(Head(todo))
    /\ todo' = Tail(todo)
    /\ pc' = AfterImage
    /\ UNCHANGED <<ftVars, gpVars, conf, visited, q, pages_crawled, url, images, links, downloaded,
                   sink, files, pops, robotsChecks, pageGets, linkGets>>

\* download_image(img_url) writes the file and returns its path
download_image(u) ==
    LET out_path == OutPath(files, u)
    IN /\ files' = (out_path :> u) @@ files
       /\ downloaded' = Append(downloaded, [url |-> u, saved_path |-> out_path])

SL_ImageOk ==
    /\ script = "srilanka" /\ pc = "images"
    /\ allowed(Head(todo))
    /\ imgGets' = Inc(imgGets, Head(todo))
    /\ Request(Head(todo))
    /\ download_image(Head(todo))
    /\ todo' = Tail(todo)
    /\ pc' = AfterImage
    /\ UNCHANGED <<ftVars, gpVars, conf, visited, q, pages_crawled, url, images, links,
                   sink, pops, robotsChecks, pageGets, linkGets>>

SL_Record ==
    [url |-> url, all_images |-> images, downloaded_images |-> downloaded,
     outbound_links_count |-> Cardinality(links)]

\* out_f.write(json.dumps(record) + "\n")
Write(r) ==
    /\ outBuf' = outBuf \o JsonLine(r)
    /\ written' = Append(written, r)
    /\ UNCHANGED outFile

\* Mutant of Flush: the flush is left out, the text stays in the buffer.
NoFlush == UNCHANGED <<outFile, outBuf, written>>

\* out_f.flush()
Flush ==
    /\ outFile' = outFile \o outBuf
    /\ outBuf' = <<>>
    /\ UNCHANGED written

SL_Write ==
    /\ script = "srilanka" /\ pc = "write"
    /\ Write(SL_Record)
    /\ pc' = "flush"
    /\ UNCHANGED <<ftVars, gpVars, conf, visited, q, pages_crawled, page, files,
                   pops, robotsChecks, pageGets, linkGets, imgGets, elapsed, impolite>>

SL_Flush ==
    /\ script = "srilanka" /\ pc = "flush"
    /\ Flush
    /\ pc' = "enqueue"
    /\ UNCHANGED <<ftVars, gpVars, conf, visited, q, pages_crawled, page, files,
                   pops, robotsChecks, pageGets, linkGets, imgGets, elapsed, impolite>>

\* Mutant of SL_Enqueue: visited.add(url) is left out.
SL_EnqueueUnmarked ==
    /\ script = "srilanka" /\ pc = "enqueue"
    /\ \E order \in Perms({l \in links : l \notin visited}) : q' = q \o order
    /\ Discover({l \in links : l \notin visited})
    /\ pages_crawled' = pages_crawled + 1
    /\ elapsed' = Slept(elapsed, IF rp_crawl_delay # 0 THEN rp_crawl_delay ELSE REQUEST_DELAY)
    /\ pc' = "loop"
    /\ UNCHANGED <<ftVars, gpVars, setup, stoppedAt, web, fetched, visited, page, sink, files,
                   pops, robotsChecks, pageGets, linkGets, imgGets, impolite>>

\* for link in links: if link not in visited: q.append(link); then
\* visited.add(url), pages_crawled += 1 and the sleep
SL_Enqueue ==
    /\ script = "srilanka" /\ pc = "enqueue"
    /\ \E order \in Perms({l \in links : l \notin visited}) : q' = q \o order
    /\ Discover({l \in links : l \notin visited})
    /\ visited' = visited \cup {url}
    /\ pages_crawled' = pages_crawled + 1
    /\ elapsed' = Slept(elapsed, IF rp_crawl_delay # 0 THEN rp_crawl_delay ELSE REQUEST_DELAY)
    /\ pc' = "loop"
    /\ UNCHANGED <<ftVars, gpVars, setup, stoppedAt, web, fetched, page, sink, files,
                   pops, robotsChecks, pageGets, linkGets, imgGets, impolite>>

----------------------------------------------------------------------------
(* thecommonwanderer.py crawl() *)

\* while q and len(visited) < MAX_PAGES
CW_LoopCond == q # <<>> /\ Cardinality(visited) < MAX_PAGES

CW_Running == script = "wanderer" /\ pc = "loop" /\ CW_LoopCond

\* Module level: robots.txt is read and parsed; crawl() is called and opens
\* the output file.
CW_RobotsRead ==
    /\ script = "wanderer" /\ pc = "robots"
    /\ RobotsRead(TRUE)
    /\ OpenW
    /\ pc' = "loop"
    /\ UNCHANGED <<gpVars, conf, visited, q, pages_crawled, page, files, histVars,
                   listing, idx, rows, csv>>

\* Module level: rp.read() raises; nothing catches it and the script ends
\* before crawl() is called
CW_RobotsFail ==
    /\ script = "wanderer" /\ pc = "robots"
    /\ RobotsRead(FALSE)
    /\ pc' = "crashed"
    /\ UNCHANGED <<gpVars, conf, visited, q, pages_crawled, page, sink, files, histVars,
                   listing, idx, rows, csv>>

CW_Exit ==
    /\ script = "wanderer" /\ pc = "loop"
    /\ ~CW_LoopCond
    /\ pc' = "done"
    /\ UNCHANGED <<ftVars, gpVars, conf, visited, q, pages_crawled, page, sink, files, histVars>>

\* url in visited or not same_site(url) or not allowed(url):
\* visited.add(url); continue
CW_Skip ==
    /\ CW_Running
    /\ Head(q) \in visited \/ ~same_site(Head(q)) \/ ~allowed(Head(q))
    /\ q' = Tail(q)
    /\ url' = Head(q)
    /\ pops' = Inc(pops, Head(q))
    /\ visited' = visited \cup {Head(q)}
    /\ robotsChecks' = IF Head(q) \notin visited /\ same_site(Head(q))
                       THEN Inc(robotsChecks, Head(q)) ELSE robotsChecks
    /\ UNCHANGED <<ftVars, gpVars, conf, pc, pages_crawled, images, links, downloaded, todo, sink, files,
                   pageGets, linkGets, imgGets, elapsed, impolite>>

CW_Take ==
    /\ CW_Running
    /\ ~(Head(q) \in visited \/ ~same_site(Head(q)) \/ ~allowed(Head(q)))
    /\ q' = Tail(q)
    /\ url' = Head(q)
    /\ pops' = Inc(pops, Head(q))
    /\ pc' = "fetch"
    /\ robotsChecks' = Inc(robotsChecks, Head(q))
    /\ UNCHANGED <<ftVars, gpVars, conf, visited, pages_crawled, images, links, downloaded, todo, sink,
                   files, pageGets, linkGets, imgGets, elapsed, impolite>>

\* extract_page(url) raises
CW_FetchFail ==
    /\ script = "wanderer" /\ pc = "fetch"
    /\ PageGet(url, Answer(FALSE, DocLeaf))
    /\ Request(url)
    /\ visited' = visited \cup {url}
    /\ pc' = "loop"
    /\ UNCHANGED <<ftVars, gpVars, setup, stoppedAt, depth, q, pages_crawled, page, sink, files,
                   pops, robotsChecks, linkGets, imgGets>>

\* images.append(urljoin(url, src)) for each img with a src
extract_images(doc, base) ==
    [i \in DOMAIN doc.srcs |->
        IF doc.srcs[i].kind = "self" THEN base ELSE doc.srcs[i].to]

\* extract_page(url) returns the record
CW_FetchOk ==
    /\ script = "wanderer" /\ pc = "fetch"
    /\ \E doc \in Docs :
         /\ PageGet(url, Answer(TRUE, doc))
         /\ images' = extract_images(doc, url)
    /\ Request(url)
    /\ pc' = "write"
    /\ UNCHANGED <<ftVars, gpVars, setup, stoppedAt, depth, visited, q, pages_crawled, url, links,
                   downloaded, todo, sink, files, pops, robotsChecks, linkGets, imgGets>>

CW_Record == [url |-> url, images |-> images]

CW_Write ==
    /\ script = "wanderer" /\ pc = "write"
    /\ Write(CW_Record)
    /\ pc' = "flush"
    /\ UNCHANGED <<ftVars, gpVars, conf, visited, q, pages_crawled, page, files,
                   pops, robotsChecks, pageGets, linkGets, imgGets, elapsed, impolite>>

\* fout.flush(); visited.add(url)
CW_Flush ==
    /\ script = "wanderer" /\ pc = "flush"
    /\ Flush
    /\ visited' = visited \cup {url}
    /\ pc' = "links"
    /\ UNCHANGED <<ftVars, gpVars, conf, q, pages_crawled, page, files,
                   pops, robotsChecks, pageGets, linkGets, imgGets, elapsed, impolite>>

\* requests.get(url, ...) for the links raises: nothing catches it
CW_LinksFail ==
    /\ script = "wanderer" /\ pc = "links"
    /\ linkGets' = Inc(linkGets, url)
    /\ Request(url)
    /\ pc' = "crashed"
    /\ UNCHANGED <<ftVars, gpVars, conf, visited, q, pages_crawled, page, sink, files,
                   pops, robotsChecks, pageGets, imgGets>>

RECURSIVE SelectSeq2(_, _, _)
\* the links of the document that are appended, in document order
SelectSeq2(hrefs, base, seen) ==
    IF hrefs = <<>> THEN <<>>
    ELSE LET link == normalize_link(base, Head(hrefs))
         IN (IF link # None /\ link \notin seen /\ same_site(link) THEN <<link>> ELSE <<>>)
            \o SelectSeq2(Tail(hrefs), base, seen)

\* Mutant of CW_Links: the links are put at the front of the queue.
CW_LinksAtFront ==
    /\ script = "wanderer" /\ pc = "links"
    /\ \E doc \in Docs :
         /\ q' = SelectSeq2(doc.hrefs, url, visited) \o q
         /\ Discover(Range(SelectSeq2(doc.hrefs, url, visited)))
    /\ linkGets' = Inc(linkGets, url)
    /\ RequestThenSleep(url, REQUEST_DELAY)
    /\ pc' = "loop"
    /\ UNCHANGED <<ftVars, gpVars, setup, stoppedAt, web, fetched, visited, pages_crawled, page,
                   sink, files, pops, robotsChecks, pageGets, imgGets>>

\* the page is fetched a second time, its links are appended, then the sleep
CW_Links ==
    /\ script = "wanderer" /\ pc = "links"
    /\ \E doc \in Docs :
         /\ q' = q \o SelectSeq2(doc.hrefs, url, visited)
         /\ Discover(Range(SelectSeq2(doc.hrefs, url, visited)))
    /\ linkGets' = Inc(linkGets, url)
    /\ RequestThenSleep(url, REQUEST_DELAY)
    /\ pc' = "loop"
    /\ UNCHANGED <<ftVars, gpVars, setup, stoppedAt, web, fetched, visited, pages_crawled, page,
                   sink, files, pops, robotsChecks, pageGets, imgGets>>

----------------------------------------------------------------------------
(* The process is stopped from outside *)

Live == pc \notin {"done", "killed", "interrupted", "crashed"}

\* SIGKILL or a power cut: what the file object still buffers is lost.
Kill ==
    /\ Live
    /\ pc' = "killed"
    /\ stoppedAt' = pc
    /\ UNCHANGED <<ftVars, gpVars, setup, trail, visited, q, pages_crawled, page, sink, files, histVars>>

\* KeyboardInterrupt: nothing in crawl() catches it; the with statement
\* closes the file, which flushes it, and the exception leaves crawl().
Interrupt ==
    /\ Live
    /\ Flush
    /\ pc' = "interrupted"
    /\ stoppedAt' = pc
    /\ UNCHANGED <<ftVars, gpVars, setup, trail, visited, q, pages_crawled, page, files, histVars>>

----------------------------------------------------------------------------
(* ella_travel_guide.py TripAdvisorEllaScraper.get_page(url, max_retries) *)
(* The sleeps between the attempts are not part of the model.             *)

InitGetPage ==
    /\ script = "ella"
    /\ pc = "attempt"
    /\ max_retries \in 0..MaxRetries
    /\ attempt = 0
    /\ result = "none"
    /\ responses = <<>>
    /\ disallow = {}
    /\ url = START_URL
    /\ images = <<>>
    /\ downloaded = <<>>
    /\ todo = <<>>
    /\ files = <<>>
    /\ pageGets = Zero
    /\ imgGets = Zero
    /\ Crawl_Idle
    /\ FT_Idle
    /\ Ella_Idle
    /\ Chunk_Idle

\* Mutant of InLoop: one iteration more than range(max_retries).
InLoopOffByOne == script = "ella" /\ pc = "attempt" /\ attempt <= max_retries

\* the iterations range(max_retries) still allows
InLoop == script = "ella" /\ pc = "attempt" /\ attempt < max_retries

gpFrame == <<ftVars, conf, visited, q, pages_crawled, page, sink, files,
             pops, robotsChecks, pageGets, linkGets, imgGets, elapsed, impolite, max_retries>>

\* status below 400: return BeautifulSoup(response.content, ...)
GP_Ok ==
    /\ InLoop
    /\ responses' = Append(responses, "200")
    /\ result' = "soup"
    /\ pc' = "returned"
    /\ UNCHANGED <<gpFrame, attempt>>

\* status 403: sleep and continue with the next iteration
GP_Forbidden ==
    /\ InLoop
    /\ responses' = Append(responses, "403")
    /\ attempt' = attempt + 1
    /\ UNCHANGED <<gpFrame, pc, result>>

\* status 404: return None
GP_NotFound ==
    /\ InLoop
    /\ responses' = Append(responses, "404")
    /\ result' = "None"
    /\ pc' = "returned"
    /\ UNCHANGED <<gpFrame, attempt>>

\* raise_for_status raises (another 4xx, a 5xx), or session.get raises
\* Timeout or ConnectionError: the except clauses print, the loop goes on
GP_Error ==
    /\ InLoop
    /\ \E r \in {"4xx", "5xx", "timeout", "connection"} :
          responses' = Append(responses, r)
    /\ attempt' = attempt + 1
    /\ UNCHANGED <<gpFrame, pc, result>>

\* the loop is over: "Failed to fetch ... after max_retries attempts"
GP_Exhausted ==
    /\ script = "ella" /\ pc = "attempt"
    /\ ~InLoop
    /\ result' = "None"
    /\ pc' = "returned"
    /\ UNCHANGED <<gpFrame, attempt, responses>>

NextGetPage == GP_Ok \/ GP_Forbidden \/ GP_NotFound \/ GP_Error \/ GP_Exhausted

SpecGetPage == InitGetPage /\ [][NextGetPage]_vars

----------------------------------------------------------------------------
(* ella_travel_guide.py TripAdvisorEllaScraper.run_full_scrape()          *)
(* A record is the section it belongs to, a title and a number of images. *)
(* A listing page holds at most MaxItems elements, fewer than the limits  *)
(* of the loops over them.                                                *)

DEFAULT_MAX_RETRIES == 3
CSV_IMAGES == 5

\* the sections that fetch a page, in the order run_full_scrape calls them
SECTIONS == <<"Main Page", "Hotels", "Attractions", "Restaurants",
              "Vacation Rentals", "Forums">>
PageSections == DOMAIN SECTIONS
FlightsSection == Len(SECTIONS) + 1
\* the numbers of images extract_images(soup) finds on the main page: more
\* than the CSV keeps (the elements of a listing have none)
MainImageCounts == {CSV_IMAGES + 1}

Record(s, t, n) == [section |-> s, title |-> t, images |-> n]

\* one row per record: the first five images in the image columns
flatten_data_for_csv(data) ==
    [i \in DOMAIN data |->
        [section |-> data[i].section,
         title |-> data[i].title,
         image_urls |-> IF data[i].images < CSV_IMAGES THEN data[i].images
                                                      ELSE CSV_IMAGES,
         total_images |-> data[i].images]]

\* the file after save_to_csv(filename): nothing is written without data
save_to_csv(data, file) ==
    IF data = <<>> THEN file ELSE <<flatten_data_for_csv(data)>>

InitElla ==
    /\ script = "ella"
    /\ pc = "section"
    /\ section = 1
    /\ all_data = <<>>
    /\ items = 0
    /\ soups = <<>>
    /\ complete_csv = <<>>
    /\ partial_csv = <<>>
    /\ max_retries = DEFAULT_MAX_RETRIES
    /\ attempt = 0
    /\ result = "none"
    /\ responses = <<>>
    /\ disallow = {}
    /\ url = START_URL
    /\ images = <<>>
    /\ downloaded = <<>>
    /\ todo = <<>>
    /\ files = <<>>
    /\ pageGets = Zero
    /\ imgGets = Zero
    /\ Crawl_Idle
    /\ FT_Idle
    /\ Chunk_Idle

ellaFrame == <<ftVars, script, MAX_PAGES, disallow, crawl_delay, runVars,
               chunkVars, trail, visited, q, pages_crawled, page, sink, files,
               histVars, max_retries>>

InFullScrape == script = "ella" /\ section >= 1

\* get_page has returned: its locals are gone
GP_Return ==
    /\ attempt' = 0
    /\ result' = "none"
    /\ responses' = <<>>

\* soup = self.get_page(url) of the section
EL_GetPage ==
    /\ InFullScrape /\ pc = "section"
    /\ section \in PageSections
    /\ pc' = "attempt"
    /\ attempt' = 0
    /\ result' = "none"
    /\ responses' = <<>>
    /\ UNCHANGED <<ellaFrame, ellaVars, stoppedAt>>

\* if not soup: print("Failed to load ..."); return
EL_NoSoup ==
    /\ InFullScrape /\ pc = "returned"
    /\ result = "None"
    /\ soups' = Append(soups, result)
    /\ section' = section + 1
    /\ pc' = "section"
    /\ GP_Return
    /\ UNCHANGED <<ellaFrame, all_data, items, complete_csv, partial_csv, stoppedAt>>

\* scrape_main_page with a soup: exactly one record
EL_MainPage ==
    /\ InFullScrape /\ pc = "returned"
    /\ result = "soup"
    /\ section = 1
    /\ soups' = Append(soups, result)
    /\ \E n \in MainImageCounts :
          all_data' = Append(all_data, Record(SECTIONS[section], 0, n))
    /\ section' = section + 1
    /\ pc' = "section"
    /\ GP_Return
    /\ UNCHANGED <<ellaFrame, items, complete_csv, partial_csv, stoppedAt>>

\* a listing section with a soup: the elements its selectors find
EL_Select ==
    /\ InFullScrape /\ pc = "returned"
    /\ result = "soup"
    /\ section > 1
    /\ soups' = Append(soups, result)
    /\ items' \in 0..MaxItems
    /\ pc' = "items"
    /\ GP_Return
    /\ UNCHANGED <<ellaFrame, section, all_data, complete_csv, partial_csv, stoppedAt>>

\* Mutant of EL_Item: an element without a title is recorded as well.
EL_ItemAlways ==
    /\ InFullScrape /\ pc = "items"
    /\ items > 0
    /\ all_data' = Append(all_data, Record(SECTIONS[section], items, 0))
    /\ items' = items - 1
    /\ UNCHANGED <<ellaFrame, gpVars, pc, section, soups, complete_csv, partial_csv, stoppedAt>>

\* one iteration of the loop over the elements: the record is appended
\* only if a title was found
EL_Item ==
    /\ InFullScrape /\ pc = "items"
    /\ items > 0
    /\ \E titled \in BOOLEAN :
          all_data' = IF titled
                      THEN Append(all_data, Record(SECTIONS[section], items, 0))
                      ELSE all_data
    /\ items' = items - 1
    /\ UNCHANGED <<ellaFrame, gpVars, pc, section, soups, complete_csv, partial_csv, stoppedAt>>

\* the loop over the elements is over
EL_ItemsDone ==
    /\ InFullScrape /\ pc = "items"
    /\ items = 0
    /\ section' = section + 1
    /\ pc' = "section"
    /\ UNCHANGED <<ellaFrame, gpVars, all_data, items, soups, complete_csv, partial_csv, stoppedAt>>

\* scrape_flights_cruises: no request, two fixed records
EL_FlightsCruises ==
    /\ InFullScrape /\ pc = "section"
    /\ section = FlightsSection
    /\ all_data' = all_data \o <<Record("Flights", 0, 0), Record("Cruises", 0, 0)>>
    /\ section' = section + 1
    /\ pc' = "save"
    /\ UNCHANGED <<ellaFrame, gpVars, items, soups, complete_csv, partial_csv, stoppedAt>>

\* success = self.save_to_csv('ella_tripadvisor_complete_data.csv')
EL_Save ==
    /\ InFullScrape /\ pc = "save"
    /\ complete_csv' = save_to_csv(all_data, complete_csv)
    /\ pc' = "summary"
    /\ UNCHANGED <<ellaFrame, gpVars, section, all_data, items, soups, partial_csv, stoppedAt>>

\* print_summary and the closing prints
EL_Finish ==
    /\ InFullScrape /\ pc = "summary"
    /\ pc' = "done"
    /\ UNCHANGED <<ellaFrame, gpVars, ellaVars, stoppedAt>>

EL_Live == InFullScrape /\ pc \in {"section", "attempt", "returned", "items", "save", "summary"}

\* Mutant of EL_Interrupt: the handler only prints.
EL_InterruptNoSave ==
    /\ EL_Live
    /\ pc' = "interrupted"
    /\ stoppedAt' = pc
    /\ UNCHANGED <<ellaFrame, gpVars, ellaVars>>

\* except KeyboardInterrupt: if self.all_data: save_to_csv(partial)
EL_Interrupt ==
    /\ EL_Live
    /\ partial_csv' = IF all_data # <<>> THEN save_to_csv(all_data, partial_csv)
                                         ELSE partial_csv
    /\ pc' = "interrupted"
    /\ stoppedAt' = pc
    /\ UNCHANGED <<ellaFrame, gpVars, section, all_data, items, soups, complete_csv>>

NextElla ==
    \/ NextGetPage
    \/ EL_GetPage \/ EL_NoSoup \/ EL_MainPage \/ EL_Select
    \/ EL_Item \/ EL_ItemsDone \/ EL_FlightsCruises
    \/ EL_Save \/ EL_Finish \/ EL_Interrupt

SpecElla == InitElla /\ [][NextElla]_vars

----------------------------------------------------------------------------
(* chunk_text of embeddings/ingestion/chunking.py (the one ingest_doc     *)
(* imports) and of ingestion/chunking.py.  A text is the sequence of the  *)
(* pieces the sentence splitter cuts it into, a piece is a sequence of    *)
(* words (empty for white space), and a chunk, " ".join(cur), is the      *)
(* sequence of its words.                                                 *)

Pieces == { <<>>, <<"a.">>, <<"b", "c.">>, <<"d", "e", "f.">> }

RECURSIVE SeqsUpTo(_, _)
SeqsUpTo(S, n) ==
    IF n = 0 THEN {<<>>}
    ELSE LET shorter == SeqsUpTo(S, n - 1)
         IN  shorter \cup { Append(t, x) : t \in shorter, x \in S }

Texts == SeqsUpTo(Pieces, MaxSentences)

\* " ".join(cur).split(): the words of the items of cur, in order
RECURSIVE Words(_)
Words(cur) == IF cur = <<>> THEN <<>> ELSE Head(cur) \o Words(Tail(cur))

\* [s.strip() for s in sents if s.strip()]
sentence_split(t) == SelectSeq(t, LAMBDA s : s # <<>>)

\* nltk's sent_tokenize: the sentences of the text
sent_tokenize(t) == SelectSeq(t, LAMBDA s : s # <<>>)

\* seq[-n:] of Python for n > 0
LastN(seq, n) == IF Len(seq) <= n THEN seq ELSE SubSeq(seq, Len(seq) - n + 1, Len(seq))

\* the words kept as the start of the next chunk, each an item of cur
Overlap(cur, ov) ==
    LET words == Words(cur)
        overlap_words == IF Len(words) >= ov THEN LastN(words, ov) ELSE words
    IN  [i \in DOMAIN overlap_words |-> <<overlap_words[i]>>]

\* embeddings/ingestion/chunking.py: the loop over the sentences from the
\* state (out, cur, cur_len), then the last chunk
RECURSIVE ChunkLoop(_, _, _, _, _, _)
ChunkLoop(sentences, out, cur, cur_len, max, ov) ==
    IF sentences = <<>>
    THEN IF cur # <<>> THEN Append(out, Words(cur)) ELSE out
    ELSE LET s == Head(sentences)
             toks == Len(s)
             close == cur # <<>> /\ cur_len + toks > max
             out1 == IF close THEN Append(out, Words(cur)) ELSE out
             cur1 == IF ~close THEN cur
                     ELSE IF ov > 0 THEN Overlap(cur, ov) ELSE <<>>
             len1 == IF ~close THEN cur_len ELSE Len(cur1)
         IN  ChunkLoop(Tail(sentences), out1, Append(cur1, s), len1 + toks, max, ov)

chunk_text(t, max, ov) == ChunkLoop(sentence_split(t), <<>>, <<>>, 0, max, ov)

\* ingestion/chunking.py: `if cur: chunks.append(...)` and `return chunks`
\* are inside the for loop, so the function returns at the end of the first
\* iteration; with no sentence the loop body never runs and the function
\* ends without a return statement.
ingestion_chunk_text(t, max, ov) ==
    LET sentences == sent_tokenize(t)
    IN  IF sentences = <<>> THEN "None"
        ELSE LET s == Head(sentences)
                 toks == Len(s)
                 cur0 == <<>>
                 close == 0 + toks > max /\ cur0 # <<>>
                 out1 == IF close THEN <<Words(cur0)>> ELSE <<>>
                 cur1 == Append(IF close THEN (IF ov # 0 THEN LastN(cur0, ov) ELSE <<>>)
                                         ELSE cur0, s)
             IN  IF cur1 # <<>> THEN Append(out1, Words(cur1)) ELSE out1

InitChunk ==
    /\ script = "chunking"
    /\ pc = "call"
    /\ doc_text \in Texts
    /\ max_tokens \in 1..MaxTokens
    /\ overlap_tokens \in 0..MaxOverlap
    /\ chunks = "unset"
    /\ disallow = {}
    /\ url = None
    /\ images = <<>>
    /\ downloaded = <<>>
    /\ todo = <<>>
    /\ files = <<>>
    /\ pageGets = Zero
    /\ imgGets = Zero
    /\ Crawl_Idle
    /\ FT_Idle
    /\ GP_Idle
    /\ Ella_Idle

\* chunks = chunk_text(...) with embeddings.ingestion.chunking imported
CT_Embeddings ==
    /\ script = "chunking" /\ pc = "call"
    /\ chunks' = chunk_text(doc_text, max_tokens, overlap_tokens)
    /\ pc' = "embeddings"
    /\ UNCHANGED <<script, MAX_PAGES, disallow, crawl_delay, visited, q,
                   pages_crawled, page, sink, files, histVars, ftVars, gpVars,
                   stoppedAt, trail, runVars, ellaVars, doc_text, max_tokens,
                   overlap_tokens>>

\* chunks = chunk_text(...) with ingestion.chunking imported
CT_Ingestion ==
    /\ script = "chunking" /\ pc = "call"
    /\ chunks' = ingestion_chunk_text(doc_text, max_tokens, overlap_tokens)
    /\ pc' = "ingestion"
    /\ UNCHANGED <<script, MAX_PAGES, disallow, crawl_delay, visited, q,
                   pages_crawled, page, sink, files, histVars, ftVars, gpVars,
                   stoppedAt, trail, runVars, ellaVars, doc_text, max_tokens,
                   overlap_tokens>>

NextChunk == CT_Embeddings \/ CT_Ingestion

SpecChunk == InitChunk /\ [][NextChunk]_vars

----------------------------------------------------------------------------
(* scrape_ft_travel.py main(limit=None, download_images_flag=True) *)

LISTING == START_URL
MAX_PER_ITEM == 6

\* An article tile of the listing, as parse_listing returns it.
Item(title, u, thumb) == [title |-> title, listing_url |-> u, thumbnail_url |-> thumb]

\* The listings the page may parse to: two articles whose titles differ only
\* in a character that is not kept in file names, one article with no
\* thumbnail, or none.
Listings ==
    { <<Item(<<"T", " ", "x">>, PageB, Img1), Item(<<"T", "/", "x">>, PageC, Img2)>>,
      <<Item(<<"U">>, PageB, None)>>,
      <<>> }

FT_RobotsPolicies == {{}, {PageC, Img2}, {LISTING}}

InitFT ==
    /\ script = "ft_travel"
    /\ pc = "robots"
    /\ disallow \in FT_RobotsPolicies
    /\ url = None
    /\ images = <<>>
    /\ downloaded = <<>>
    /\ todo = <<>>
    /\ files = <<>>
    /\ pageGets = Zero
    /\ imgGets = Zero
    /\ Crawl_Idle
    /\ FT_Idle
    /\ GP_Idle
    /\ Ella_Idle
    /\ Chunk_Idle

ftFrame == <<gpVars, conf, visited, q, pages_crawled,
             links, sink, pops, robotsChecks, linkGets, elapsed, impolite>>

\* can_fetch(u) with the outcome `readable` of its rp.read(): a fresh parser
\* reads robots.txt at every call; if that raises the answer is True.
can_fetch(u, readable) == IF readable THEN u \notin disallow ELSE TRUE

\* "robots.txt disallows scraping the listing. Aborting."
FT_ListingDenied ==
    /\ script = "ft_travel" /\ pc = "robots"
    /\ \E readable \in BOOLEAN :
         /\ ~can_fetch(LISTING, readable)
         /\ RobotsRead(readable)
    /\ pc' = "done"
    /\ UNCHANGED <<ftFrame, page, files, pageGets, imgGets, listing, idx, rows, csv>>

FT_ListingAllowed ==
    /\ script = "ft_travel" /\ pc = "robots"
    /\ \E readable \in BOOLEAN :
         /\ can_fetch(LISTING, readable)
         /\ RobotsRead(readable)
    /\ pc' = "listing"
    /\ UNCHANGED <<ftFrame, page, files, pageGets, imgGets, listing, idx, rows, csv>>

\* load_soup_from_local_or_web raises: main ends with the exception
FT_LoadFail ==
    /\ script = "ft_travel" /\ pc = "listing"
    /\ pageGets' = Inc(pageGets, LISTING)
    /\ pc' = "crashed"
    /\ UNCHANGED <<ftFrame, ftVars, page, files, imgGets>>

\* the listing is loaded (from the saved copy or from the web) and parsed
FT_Load ==
    /\ script = "ft_travel" /\ pc = "listing"
    /\ \E local \in BOOLEAN :
         pageGets' = IF local THEN pageGets ELSE Inc(pageGets, LISTING)
    /\ listing' \in Listings
    /\ pc' = "item"
    /\ UNCHANGED <<ftFrame, page, files, imgGets, idx, rows, csv, robotsReads, robotsFailed>>

FT_HasItem == script = "ft_travel" /\ pc = "item" /\ listing # <<>>

\* urls[:max_per_item] of the thumbnail followed by the article's images
ToDownload(item, article_images) ==
    LET to_dl == (IF item.thumbnail_url # None THEN <<item.thumbnail_url>> ELSE <<>>)
                 \o article_images
    IN SubSeq(to_dl, 1, Min(Len(to_dl), MAX_PER_ITEM))

\* what every outcome of fetch_article_details leads to: download_images
\* starts on the item
FT_BeginImages(article_images) ==
    /\ url' = Head(listing).listing_url
    /\ images' = article_images
    /\ todo' = ToDownload(Head(listing), article_images)
    /\ downloaded' = <<>>
    /\ idx' = 0
    /\ pc' = "images"

\* fetch_article_details: robots.txt denies the article
FT_DetailsDenied ==
    /\ FT_HasItem
    /\ \E readable \in BOOLEAN :
         /\ ~can_fetch(Head(listing).listing_url, readable)
         /\ RobotsRead(readable)
    /\ FT_BeginImages(<<>>)
    /\ UNCHANGED <<ftFrame, links, files, pageGets, imgGets, listing, rows, csv>>

\* fetch_article_details: the request fails
FT_DetailsFail ==
    /\ FT_HasItem
    /\ \E readable \in BOOLEAN :
         /\ can_fetch(Head(listing).listing_url, readable)
         /\ RobotsRead(readable)
    /\ pageGets' = Inc(pageGets, Head(listing).listing_url)
    /\ FT_BeginImages(<<>>)
    /\ UNCHANGED <<ftFrame, links, files, imgGets, listing, rows, csv>>

RECURSIVE Dedupe(_, _)
\* list(dict.fromkeys(imgs))
Dedupe(s, seen) ==
    IF s = <<>> THEN <<>>
    ELSE (IF Head(s) \in seen THEN <<>> ELSE <<Head(s)>>)
         \o Dedupe(Tail(s), seen \cup {Head(s)})

\* urljoin(BASE, src) of every img with a src (fragments are not told apart)
article_images(doc) ==
    Dedupe([i \in DOMAIN doc.srcs |->
               IF doc.srcs[i].kind = "self" THEN START_URL ELSE doc.srcs[i].to], {})

\* fetch_article_details: the article is fetched and parsed
FT_DetailsOk ==
    /\ FT_HasItem
    /\ \E readable \in BOOLEAN :
         /\ can_fetch(Head(listing).listing_url, readable)
         /\ RobotsRead(readable)
    /\ pageGets' = Inc(pageGets, Head(listing).listing_url)
    /\ \E doc \in Docs : FT_BeginImages(article_images(doc))
    /\ UNCHANGED <<ftFrame, links, files, imgGets, listing, rows, csv>>

SafeChars == {"T", "U", "x", "_", "-", "."}
\* re.sub(r'[^A-Za-z0-9_\-\.]', '_', title_prefix)
safe_name(title) == [i \in DOMAIN title |-> IF title[i] \in SafeChars THEN title[i] ELSE "_"]

IdxDigits == <<"0", "1", "2", "3", "4", "5", "6">>
\* f"{safe_name}_{idx}{ext}" in IM_DIR
FT_OutPath(title, i, u) ==
    LET ext == SplitExt(Basename(u.path))[2]
    IN safe_name(title) \o <<"_", IdxDigits[i + 1]>> \o (IF ext # <<>> THEN ext ELSE <<".jpg">>)

FT_InImages == script = "ft_travel" /\ pc = "images" /\ todo # <<>>
FT_Path == FT_OutPath(Head(listing).title, idx, Head(todo))

\* outp.exists(): the path is reported without a request
FT_ImageExists ==
    /\ FT_InImages
    /\ FT_Path \in DOMAIN files
    /\ downloaded' = Append(downloaded, FT_Path)
    /\ todo' = Tail(todo)
    /\ idx' = idx + 1
    /\ UNCHANGED <<ftFrame, pc, url, images, links, files, pageGets, imgGets,
                   listing, rows, csv, robotsReads, robotsFailed>>

\* the image is requested and written
FT_ImageOk ==
    /\ FT_InImages
    /\ FT_Path \notin DOMAIN files
    /\ imgGets' = Inc(imgGets, Head(todo))
    /\ files' = (FT_Path :> Head(todo)) @@ files
    /\ downloaded' = Append(downloaded, FT_Path)
    /\ todo' = Tail(todo)
    /\ idx' = idx + 1
    /\ UNCHANGED <<ftFrame, pc, url, images, links, pageGets,
                   listing, rows, csv, robotsReads, robotsFailed>>

\* the request raises: "[warn] image download failed"
FT_ImageFail ==
    /\ FT_InImages
    /\ FT_Path \notin DOMAIN files
    /\ imgGets' = Inc(imgGets, Head(todo))
    /\ todo' = Tail(todo)
    /\ idx' = idx + 1
    /\ UNCHANGED <<ftFrame, pc, url, images, links, downloaded, files, pageGets,
                   listing, rows, csv, robotsReads, robotsFailed>>

\* rows.append({...}) and the sleep: the item is done
FT_Row ==
    /\ script = "ft_travel" /\ pc = "images" /\ todo = <<>>
    /\ rows' = Append(rows, [listing_url |-> url, article_image_urls |-> images,
                             image_files |-> downloaded])
    /\ listing' = Tail(listing)
    /\ pc' = "item"
    /\ UNCHANGED <<ftFrame, page, files, pageGets, imgGets, idx, csv,
                   robotsReads, robotsFailed>>

\* df.to_csv(CSV_PATH, index=False)
FT_Save ==
    /\ script = "ft_travel" /\ pc = "item" /\ listing = <<>>
    /\ csv' = <<rows>>
    /\ pc' = "done"
    /\ UNCHANGED <<ftFrame, page, files, pageGets, imgGets, listing, idx, rows,
                   robotsReads, robotsFailed>>

NextFT ==
    \/ FT_ListingDenied \/ FT_ListingAllowed \/ FT_LoadFail \/ FT_Load
    \/ FT_DetailsDenied \/ FT_DetailsFail \/ FT_DetailsOk
    \/ FT_ImageExists \/ FT_ImageOk \/ FT_ImageFail
    \/ FT_Row \/ FT_Save
    \/ Kill \/ Interrupt

SpecFT == InitFT /\ [][NextFT]_vars

----------------------------------------------------------------------------
(* The script is started again after a run has ended *)

\* python scrape_srilanka.py once more: the module level code and crawl()
\* start from their initial values; the output file, the images directory
\* and the site are what the run before left.
SL_Restart ==
    /\ script = "srilanka"
    /\ pc \in {"done", "interrupted", "crashed"}
    /\ runs < MaxRuns
    /\ runs' = runs + 1
    /\ prev' = fetched
    /\ pc' = "robots"
    /\ q' = <<START_URL>>
    /\ depth' = Seeded(q')
    /\ visited' = {}
    /\ pages_crawled' = 0
    /\ url' = None
    /\ images' = <<>>
    /\ links' = {}
    /\ downloaded' = <<>>
    /\ todo' = <<>>
    /\ outBuf' = <<>>
    /\ pops' = Zero
    /\ robotsChecks' = Zero
    /\ pageGets' = Zero
    /\ linkGets' = Zero
    /\ imgGets' = Zero
    /\ elapsed' = MaxDelay
    /\ impolite' = FALSE
    /\ written' = <<>>
    /\ stoppedAt' = "running"
    /\ fetched' = <<>>
    /\ robotsReads' = 0
    /\ robotsFailed' = FALSE
    /\ UNCHANGED <<script, MAX_PAGES, disallow, crawl_delay, outFile, files, web,
                   listing, idx, rows, csv, gpVars, ellaVars, chunkVars>>

----------------------------------------------------------------------------

Init == InitSrilanka \/ InitWanderer

NextSrilanka ==
    \/ SL_RobotsRead
    \/ SL_Exit \/ SL_Skip \/ SL_RobotsSkip \/ SL_Take
    \/ SL_FetchFail \/ SL_FetchOk
    \/ SL_ImageDenied \/ SL_ImageFail \/ SL_ImageOk
    \/ SL_Write \/ SL_Flush \/ SL_Enqueue

NextWanderer ==
    \/ CW_RobotsRead \/ CW_RobotsFail
    \/ CW_Exit \/ CW_Skip \/ CW_Take
    \/ CW_FetchFail \/ CW_FetchOk
    \/ CW_Write \/ CW_Flush
    \/ CW_LinksFail \/ CW_Links

\* One run of a crawl, which may be killed at any point.
Next == NextSrilanka \/ NextWanderer \/ Kill

Spec == Init /\ [][Next]_vars

\* Runs of scrape_srilanka.py one after the other, each ended by the loop or
\* by Ctrl-C, on a site without a Crawl-delay.
InitRuns == InitSrilanka /\ MAX_PAGES <= MaxRunBudget /\ crawl_delay = 0

NextRuns == NextSrilanka \/ Interrupt \/ SL_Restart

SpecRuns == InitRuns /\ [][NextRuns]_vars

----------------------------------------------------------------------------
(* Properties *)

RECURSIVE SumOver(_, _)
SumOver(f, S) ==
    IF S = {} THEN 0
    ELSE LET x == CHOOSE y \in S : TRUE IN f[x] + SumOver(f, S \ {x})

\* the page fetch attempts of the run (the first GET of each page)
NumPageGets == SumOver(pageGets, AllUrls)

Front(s) == SubSeq(s, 1, Len(s) - 1)

HasRecord(text, u) == \E i \in DOMAIN ParsedRecords(text) : ParsedRecords(text)[i].url = u

\* C1 (Dedup): in a run of crawl(), of either script, every URL passes the
\* robots check at most once and is fetched as a page at most once, however
\* often it is discovered and popped, and no two records written have the
\* same url.
C1_Dedup ==
    /\ \A u \in AllUrls : robotsChecks[u] <= 1 /\ pageGets[u] <= 1
    /\ \A i, j \in DOMAIN written : i # j => written[i].url # written[j].url

\* A page that was fetched and has its record was popped a second time (it was
\* linked again) and the run went on to its end.
C1_Witness ==
    /\ pc = "done"
    /\ \E u \in AllUrls :
          /\ pops[u] >= 2 /\ pageGets[u] = 1
          /\ HasRecord(outFile, u)

\* C2 (Budget): a run of crawl() makes at most MAX_PAGES fetch attempts of
\* new pages, failed ones included; the second GET of thecommonwanderer goes
\* to a page already fetched.
C2_Budget ==
    /\ NumPageGets <= MAX_PAGES
    /\ \A u \in AllUrls : linkGets[u] <= pageGets[u]

\* The run has stopped with the budget used up while the queue still holds a
\* URL that was never visited and that the crawl would fetch.
C2_Witness ==
    /\ pc = "done" /\ MAX_PAGES >= 2 /\ NumPageGets = MAX_PAGES
    /\ \E i \in DOMAIN q : q[i] \notin visited /\ same_site(q[i]) /\ allowed(q[i])

\* C3 (Robots compliance), as claimed: while robots.txt can be read, no URL
\* that it denies is requested, be it a page or an image.
C3_RobotsCompliance ==
    ~robotsFailed =>
        \A u \in AllUrls : (pageGets[u] > 0 \/ imgGets[u] > 0) => u \notin disallow

Retryable == {"403", "5xx", "timeout", "connection"}
AllRetryable == \A i \in DOMAIN responses : responses[i] \in Retryable

\* C4 (Retry bound), as amended: get_page never issues more than max_retries
\* requests, and when every answer was a retryable failure it has issued
\* exactly max_retries requests and returns None.
C4_RetryBound ==
    /\ Len(responses) <= max_retries
    /\ (script = "ella" /\ pc = "returned" /\ AllRetryable) =>
          (Len(responses) = max_retries /\ result = "None")

\* get_page with the default max_retries = 3 has given up after three
\* retryable failures, a 403 among them.
C4_Witness ==
    /\ script = "ella" /\ pc = "returned" /\ max_retries = 3
    /\ Len(responses) = 3 /\ AllRetryable /\ result = "None"
    /\ \E i \in DOMAIN responses : responses[i] = "403"

\* C4 as claimed: after retryable failures on every attempt get_page has
\* issued max_retries + 1 requests.
C4_RetryBoundClaimed ==
    (script = "ella" /\ pc = "returned" /\ responses # <<>> /\ AllRetryable) =>
        (Len(responses) = max_retries + 1 /\ result = "None")

\* C5 (Politeness), as claimed: every request to the site comes at least the
\* crawl-delay (REQUEST_DELAY if there is none) after the one before it.
C5_Politeness == ~impolite

\* C6 (Sink durability): when the process is killed, the output file splits
\* into complete lines of one JSON object each, and they are exactly the
\* records written so far; only a record whose write() was not yet followed
\* by flush() is missing.
C6_SinkDurability ==
    (pc = "killed" /\ script \in {"srilanka", "wanderer"}) =>
        /\ Parses(outFile)
        /\ ParsedRecords(outFile) = IF stoppedAt = "flush" THEN Front(written) ELSE written

\* The process was killed after two records were written and flushed, while
\* a third page was in work.
C6_Witness ==
    /\ pc = "killed" /\ script \in {"srilanka", "wanderer"}
    /\ stoppedAt \in {"fetch", "images", "write"}
    /\ Len(written) = 2

\* C7 (Image dedup), as claimed: an image URL is stored in one file at most,
\* and every record that refers to it names the same local path.
C7_ImageDedup ==
    script = "srilanka" =>
        /\ \A u \in ImageUrls : Cardinality({f \in DOMAIN files : files[f] = u}) <= 1
        /\ \A i, j \in DOMAIN written :
              \A m \in DOMAIN written[i].downloaded_images :
                 \A n \in DOMAIN written[j].downloaded_images :
                    written[i].downloaded_images[m].url = written[j].downloaded_images[n].url
                    => written[i].downloaded_images[m].saved_path
                         = written[j].downloaded_images[n].saved_path

\* C8, as claimed: no failed request made for a page ends the crawl.
C8_PageErrorsNotFatal == script \in {"srilanka", "wanderer"} => pc # "crashed"

\* C9, as claimed: when the run is killed or interrupted, the record of every
\* item processed so far is in the output file.
C9_LosesAtMostInFlight ==
    (script = "ft_travel" /\ pc \in {"killed", "interrupted"}) =>
        (rows = <<>> \/ csv = <<rows>>)

\* C10, as claimed: when the interrupt arrives while a page is in work, the
\* page is finished and its record is in the output once the crawl has stopped.
C10_DrainOnInterrupt ==
    (script = "srilanka" /\ pc = "interrupted"
        /\ stoppedAt \in {"fetch", "images", "write", "flush", "enqueue"}) =>
        HasRecord(outFile, url)

\* C11, as claimed: when robots.txt could not be read the run goes on with
\* every URL permitted: the script does not end with the exception, and a run
\* with a page budget does not end without having requested a page.
C11_RobotsFailOpen ==
    (script \in {"srilanka", "wanderer"} /\ robotsFailed) =>
        /\ pc # "crashed"
        /\ (pc = "done" /\ MAX_PAGES > 0) => fetched # <<>>

\* C12, as claimed: the queue never holds a URL twice and never holds a URL
\* of the visited set.
C12_NeverQueuedTwice ==
    script \in {"srilanka", "wanderer"} =>
        /\ \A i, j \in DOMAIN q : i # j => q[i] # q[j]
        /\ \A i \in DOMAIN q : q[i] \notin visited

IsPrefix(s, t) == Len(s) <= Len(t) /\ SubSeq(t, 1, Len(s)) = s

\* C13, as claimed: the output only grows; no step, of this run or of a later
\* one, removes or overwrites a record that is in the file.
C13_AppendOnly == [][IsPrefix(outFile, outFile')]_vars

\* C16, as claimed: a second run on the same site, with the same answers to
\* the same requests, requests the pages the first run requested, in the same
\* order, as far as both runs get.
C16_Deterministic ==
    (script = "srilanka" /\ runs >= 2) =>
        \A i \in 1..Min(Len(prev), Len(fetched)) : prev[i] = fetched[i]

\* the page budget is used up
BudgetReached ==
    IF script = "srilanka" THEN pages_crawled >= MAX_PAGES
    ELSE Cardinality(visited) >= MAX_PAGES

\* C14, as claimed: when crawl() has stopped, by leaving its loop or by an
\* exception, the queue is empty or the page budget is used up.
C14_StopsAtEmptyOrBudget ==
    (script \in {"srilanka", "wanderer"} /\ pc \in {"done", "crashed"} /\ ~robotsFailed) =>
        (q = <<>> \/ BudgetReached)

\* C15, as claimed: a 404 or another 4xx answer (403 apart) is the last
\* request get_page makes for the URL.
C15_PermanentOn4xx ==
    script = "ella" =>
        \A i \in DOMAIN responses : responses[i] \in {"404", "4xx"} => i = Len(responses)

\* C17 (breadth-first): the pages are requested in non-decreasing order of
\* the depth at which they were first discovered.
C17_BreadthFirst ==
    script \in {"srilanka", "wanderer"} =>
        \A i, j \in DOMAIN fetched : i < j => depth[fetched[i]] <= depth[fetched[j]]

\* A run has requested a seed, then a page found on it, then a page found
\* on that one.
C17_Witness ==
    /\ script \in {"srilanka", "wanderer"} /\ pc = "done"
    /\ Len(fetched) = 3
    /\ \A i \in 1..3 : depth[fetched[i]] = i - 1

\* C18, as claimed: robots.txt is requested at most once in a run.
C18_RobotsFetchedOnce == script = "ft_travel" => robotsReads <= 1

\* The limit of C19, scaled to the pages of the model, whose documents hold
\* up to two images.
perPageLimit == 1

\* C19, as claimed: for no page more than perPageLimit images are downloaded.
C19_ImageLimit == script = "srilanka" => Len(downloaded) <= perPageLimit

\* the images the page u referred to when it was fetched
PageImages(u) == find_all_images(web[u].doc, u)

\* C20: a failed image download does not end the work on the page: every
\* image of the page that robots.txt permits is requested, every page that
\* was fetched and finished has its record, and each record names all images
\* of the page, with a local path for exactly those whose file was stored.
C20_ImageFailureNotFatal ==
    script = "srilanka" =>
        /\ pc # "crashed"
        /\ pc = "write" =>
              \A i \in DOMAIN images : allowed(images[i]) => imgGets[images[i]] > 0
        /\ \A u \in DOMAIN web :
              (web[u].ok /\ u \in visited) => \E i \in DOMAIN written : written[i].url = u
        /\ \A i \in DOMAIN written :
              /\ Range(written[i].all_images) = PageImages(written[i].url)
              /\ \A m \in DOMAIN written[i].downloaded_images :
                    LET d == written[i].downloaded_images[m]
                    IN /\ d.url \in Range(written[i].all_images)
                       /\ d.saved_path \in DOMAIN files
                       /\ files[d.saved_path] = d.url

\* The record of a page with two images is in the output: the download of
\* the first image failed, the second image was downloaded after it.
C20_Witness ==
    /\ script = "srilanka" /\ disallow = {} /\ ~robotsFailed
    /\ \E i \in DOMAIN ParsedRecords(outFile) :
          LET r == ParsedRecords(outFile)[i]
          IN /\ Len(r.all_images) = 2
             /\ Len(r.downloaded_images) = 1
             /\ r.downloaded_images[1].url = r.all_images[2]

C22_FailFast ==
    (script \in {"srilanka", "wanderer"} /\ MAX_PAGES = 0) =>
        (robotsReads = 0 /\ NumPageGets = 0)

\* a URL the loop would fetch if it popped it
Fetchable(u) ==
    /\ u \notin visited
    /\ allowed(u)
    /\ IF script = "srilanka" THEN same_domain(u) ELSE same_site(u)

\* C23, as claimed: skipping robots-denied URLs uses up no budget: the loop
\* does not end with fewer than MAX_PAGES pages requested while the queue
\* holds a URL it would fetch.
C23_DeniedCostsNothing ==
    (script \in {"srilanka", "wanderer"} /\ pc = "done") =>
        (NumPageGets >= MAX_PAGES \/ \A i \in DOMAIN q : ~Fetchable(q[i]))

\* the number in the last message of crawl(): pages_crawled, or len(visited)
Reported == IF script = "srilanka" THEN pages_crawled ELSE Cardinality(visited)

\* C24, as claimed: the total reported at the end is the number of records
\* written in the run.
C24_ReportedTotal ==
    (script \in {"srilanka", "wanderer"} /\ pc = "done") => Reported = Len(written)

\* C25, as claimed: only URLs of the seed's registered domain are queued or
\* requested.
C25_SameRegisteredDomain ==
    script \in {"srilanka", "wanderer"} =>
        /\ \A i \in DOMAIN fetched : OnSite(fetched[i])
        /\ \A i \in DOMAIN q : OnSite(q[i])

\* C27, as claimed: thecommonwanderer requests no page a second time.
C27_OneRequestPerPage ==
    script = "wanderer" => \A u \in AllUrls : pageGets[u] + linkGets[u] <= 1

\* C28, as claimed: every path download_images has reported for an image of
\* the item names a file that holds what was downloaded from that image's URL.
C28_ReportedFileIsOfUrl ==
    (script = "ft_travel" /\ pc = "images") =>
        \A k \in 1..idx :
            LET u == ToDownload(Head(listing), images)[k]
                path == FT_OutPath(Head(listing).title, k - 1, u)
            IN path \in Range(downloaded) => (path \in DOMAIN files /\ files[path] = u)

\* C29: in run_full_scrape the records lie in the fixed order of the sections;
\* a section whose page could not be fetched has no record, and all six pages
\* have been asked for by the time the data is saved, whatever failed before;
\* after a KeyboardInterrupt the partial CSV holds a row for every record
\* collected so far, and it does not exist if there was none.
SectionNo(s) ==
    IF \E k \in PageSections : SECTIONS[k] = s
    THEN CHOOSE k \in PageSections : SECTIONS[k] = s
    ELSE FlightsSection
C29_FullScrape ==
    InFullScrape =>
      /\ \A i, j \in DOMAIN all_data :
            i < j => SectionNo(all_data[i].section) <= SectionNo(all_data[j].section)
      /\ \A k \in DOMAIN soups :
            soups[k] = "None" => \A i \in DOMAIN all_data : all_data[i].section # SECTIONS[k]
      /\ pc \in {"save", "summary", "done"} =>
            /\ Len(soups) = Len(SECTIONS)
            /\ \E i \in DOMAIN all_data : all_data[i].section = "Flights"
      /\ pc = "done" => complete_csv = <<flatten_data_for_csv(all_data)>>
      /\ pc = "interrupted" =>
            partial_csv = IF all_data = <<>> THEN <<>>
                          ELSE <<flatten_data_for_csv(all_data)>>
C29_Witness ==
    /\ InFullScrape /\ pc = "interrupted" /\ stoppedAt = "attempt"
    /\ \E k \in DOMAIN soups :
          /\ soups[k] = "None"
          /\ \E i \in DOMAIN all_data : SectionNo(all_data[i].section) > k
    /\ partial_csv # <<>>
    /\ Len(partial_csv[1]) = Len(all_data)
    /\ partial_csv[1][1].total_images > partial_csv[1][1].image_urls

\* C30: chunk_text loses no content: it returns a list of chunks in which
\* every sentence of the text appears, in the order of the text; for a text
\* without a sentence the list is empty; and a chunk that is not the last was
\* closed because the sentence after it would have taken it over max_tokens.
Contains(chunk, s) ==
    \E i \in 0..(Len(chunk) - Len(s)) : SubSeq(chunk, i + 1, i + Len(s)) = s
AllInOrder(sents, out) ==
    \E f \in [DOMAIN sents -> DOMAIN out] :
        /\ \A i, j \in DOMAIN sents : i < j => f[i] <= f[j]
        /\ \A i \in DOMAIN sents : Contains(out[f[i]], sents[i])
\* the words of chunks 1..k that are not overlap taken from the chunk before
RECURSIVE NewWords(_, _, _)
NewWords(out, k, ov) ==
    IF k = 0 THEN 0
    ELSE NewWords(out, k - 1, ov) + Len(out[k])
         - (IF k = 1 THEN 0
            ELSE IF Len(out[k - 1]) >= ov THEN ov ELSE Len(out[k - 1]))
ClosedWhenFull(sents, out, max, ov) ==
    \A k \in 1..(Len(out) - 1) :
        \E j \in DOMAIN sents :
            /\ Len(Words(SubSeq(sents, 1, j - 1))) = NewWords(out, k, ov)
            /\ Len(out[k]) + Len(sents[j]) > max
NoContentLost ==
    LET sents == SelectSeq(doc_text, LAMBDA s : s # <<>>)
    IN  /\ chunks # "None"
        /\ sents = <<>> => chunks = <<>>
        /\ AllInOrder(sents, chunks)
        /\ ClosedWhenFull(sents, chunks, max_tokens, overlap_tokens)
C30_NoContentLost ==
    (script = "chunking" /\ pc \in {"embeddings", "ingestion"}) => NoContentLost

\* What holds of the chunk_text that ingest_doc imports.
EmbeddingsLosesNothing ==
    (script = "chunking" /\ pc = "embeddings") => NoContentLost

====
